---- MODULE Spec2Model ----
(***************************************************************************)
(* The SystemTap SDT v3 back end of the usdt crate (usdt-impl/src/stap3.rs)*)
(*                                                                         *)
(* Three specifications share the variables below:                         *)
(*   SpecCompile  build time: a provider definition is compiled into the   *)
(*                probe macros and their note records;                     *)
(*   SpecAsm      assembly time: the records emitted at the expanded call  *)
(*                sites are assembled into one assembly unit;              *)
(*   Spec         run time: threads invoke probe entry points while a      *)
(*                tracer attaches to and detaches from the semaphores.     *)
(*                                                                         *)
(* A string is a sequence of one-character strings.                        *)
(***************************************************************************)
EXTENDS Integers, Sequences, FiniteSets, TLC

VARIABLES
    c_source,     \* build: the parsed D source being compiled
    c_provider,   \* build: the Provider being compiled
    c_config,     \* build: the CompileProvidersConfig of the caller
    c_output,     \* build: what the compilation produced
    sites,        \* asm: the expanded call sites, in expansion order
    symtab,       \* asm: the assembler's symbol table
    notes,        \* asm: the notes deposited in .note.stapsdt
    anchor_log,   \* asm: per assembled record, whether it found the anchor defined
    sema,         \* run: the 2-byte semaphore of every probe
    attached,     \* run: consumers the tracer has attached, per probe
    pc,           \* run: each thread's position in the entry point
    cur,          \* run: the call each thread is executing
    is_enabled,   \* run: the local `is_enabled` of each thread
    args,         \* run: the tuple the thunk returned
    slots,        \* run: arg_0 .. arg_{n-1} after marshalling
    trace,        \* run: the steps of the current invocation, in order
    invocations,  \* run: invocations of entry points started so far
    nonzero_reads,\* run: semaphore reads that returned a nonzero value
    thunk_calls,  \* run: how often an argument thunk has run
    fired,        \* run: how often a firing trap site has been executed
    reg_calls,    \* run: calls of register_probes so far
    reg_result    \* run: what the last register_probes call returned

build_vars == <<c_source, c_provider, c_config, c_output>>
asm_vars == <<sites, symtab, notes, anchor_log>>
run_vars == <<sema, attached, pc, cur, is_enabled, args, slots, trace,
              invocations, nonzero_reads, thunk_calls, fired, reg_calls, reg_result>>
vars == <<build_vars, asm_vars, run_vars>>

(***************************************************************************)
(* Bounds of the model.                                                    *)
(***************************************************************************)
MaxParams == 7       \* longest parameter list compiled
MaxShort == 2        \* longest parameter list drawn over every data type
MaxNameLen == 4      \* longest generated probe name
MaxProbes == 2       \* most probes in a provider of several probes
MaxSites == 2        \* most expanded call sites in the assembly unit
MaxInvocations == 2  \* most invocations of probe entry points in a run
MaxConsumers == 1    \* most consumers attached at one time
MaxRegCalls == 2     \* most calls of register_probes in a run
MaxProviders == 2    \* most providers declared in one D source
MaxBelowWrap == 2    \* a tracer near the counter's limit starts this far below it
MaxOverWrap == 1     \* and attaches at most this many consumers past it

(***************************************************************************)
(* Strings.                                                                *)
(***************************************************************************)
Digits == <<"0", "1", "2", "3", "4", "5", "6", "7", "8", "9">>

RECURSIVE NatToString(_)
NatToString(n) ==
    IF n < 10 THEN <<Digits[n + 1]>>
    ELSE NatToString(n \div 10) \o <<Digits[(n % 10) + 1]>>

\* Display of a signed integer, as format!("{}", i) prints it.
IntToString(i) == IF i < 0 THEN <<"-">> \o NatToString(0 - i) ELSE NatToString(i)

\* [String]::join(sep)
RECURSIVE Join(_, _)
Join(parts, sep) ==
    IF Len(parts) = 0 THEN <<>>
    ELSE IF Len(parts) = 1 THEN parts[1]
    ELSE parts[1] \o sep \o Join(Tail(parts), sep)

IsPrefixAt(s, i, pat) ==
    /\ i + Len(pat) - 1 <= Len(s)
    /\ \A k \in 1..Len(pat) : s[i + k - 1] = pat[k]

\* str::replace(from, to): the non-overlapping matches, left to right.
RECURSIVE ReplaceFrom(_, _, _, _)
ReplaceFrom(s, i, from, to) ==
    IF i > Len(s) THEN <<>>
    ELSE IF IsPrefixAt(s, i, from)
         THEN to \o ReplaceFrom(s, i + Len(from), from, to)
         ELSE <<s[i]>> \o ReplaceFrom(s, i + 1, from, to)

Replace(s, from, to) == ReplaceFrom(s, 1, from, to)

(***************************************************************************)
(* The data-type lexicon (DataType of usdt-impl; its source is not part of *)
(* stap3.rs).                                                              *)
(***************************************************************************)
UnsignedTypes == {"uint8_t", "uint16_t", "uint32_t", "uint64_t"}
SignedTypes == {"int8_t", "int16_t", "int32_t", "int64_t"}
DataTypes == UnsignedTypes \cup SignedTypes \cup {"char *", "Serializable"}

\* The ABI integer-argument register count (AMD64 SysV).
MaxArity == 6

integer_width(typ) ==
    CASE typ \in {"uint8_t", "int8_t"} -> 1
      [] typ \in {"uint16_t", "int16_t"} -> 2
      [] typ \in {"uint32_t", "int32_t"} -> 4
      [] OTHER -> 8

to_asm_size(typ) ==
    IF typ \in SignedTypes THEN 0 - integer_width(typ) ELSE integer_width(typ)

AsmRegisters ==
    [w \in {1, 2, 4, 8} |->
        CASE w = 1 -> << <<"%", "d", "i", "l">>, <<"%", "s", "i", "l">>,
                         <<"%", "d", "l">>, <<"%", "c", "l">>,
                         <<"%", "r", "8", "b">>, <<"%", "r", "9", "b">> >>
          [] w = 2 -> << <<"%", "d", "i">>, <<"%", "s", "i">>,
                         <<"%", "d", "x">>, <<"%", "c", "x">>,
                         <<"%", "r", "8", "w">>, <<"%", "r", "9", "w">> >>
          [] w = 4 -> << <<"%", "e", "d", "i">>, <<"%", "e", "s", "i">>,
                         <<"%", "e", "d", "x">>, <<"%", "e", "c", "x">>,
                         <<"%", "r", "8", "d">>, <<"%", "r", "9", "d">> >>
          [] w = 8 -> << <<"%", "r", "d", "i">>, <<"%", "r", "s", "i">>,
                         <<"%", "r", "d", "x">>, <<"%", "r", "c", "x">>,
                         <<"%", "r", "8">>, <<"%", "r", "9">> >> ]

\* The operand of argument reg_index (0-based); a parameter beyond the ABI
\* registers is an UnsupportedArity error.
to_asm_op(typ, reg_index) ==
    IF reg_index < MaxArity
    THEN [ok |-> TRUE, op |-> AsmRegisters[integer_width(typ)][reg_index + 1],
          err |-> "none"]
    ELSE [ok |-> FALSE, op |-> <<>>, err |-> "UnsupportedArity"]

(***************************************************************************)
(* The emitted assembly text.  A record's text is three parts in order:    *)
(* the directives before the note, the note, the directives after it.      *)
(***************************************************************************)
Dir(k, sym, arg, n) == [k |-> k, sym |-> sym, arg |-> arg, n |-> n]

None == [some |-> FALSE, v |-> <<>>]
Some(x) == [some |-> TRUE, v |-> x]

SemaPrefix == <<"_", "_", "u", "s", "d", "t", "_", "s", "e", "m", "a", "_">>
StapsdtBase == <<"_", ".", "s", "t", "a", "p", "s", "d", "t", ".", "b", "a", "s", "e">>

\* .ifndef <sema> ... .endif
SemaphoreBlock(sema_name) ==
    << Dir("ifndef", sema_name, "", 0),
       Dir("pushsection", <<>>, ".probes, \"aw\", \"progbits\"", 0),
       Dir("weak", sema_name, "", 0),
       Dir("hidden", sema_name, "", 0),
       Dir("label", sema_name, "", 0),
       Dir("zero", <<>>, "", 2),
       Dir("type", sema_name, "@object", 0),
       Dir("size", sema_name, "", 2),
       Dir("popsection", <<>>, "", 0),
       Dir("endif", <<>>, "", 0) >>

\* .ifndef _.stapsdt.base ... .endif
BaseBlock ==
    << Dir("ifndef", StapsdtBase, "", 0),
       Dir("pushsection", <<>>,
           ".stapsdt.base, \"aG\", \"progbits\", .stapsdt.base, comdat", 0),
       Dir("weak", StapsdtBase, "", 0),
       Dir("hidden", StapsdtBase, "", 0),
       Dir("label", StapsdtBase, "", 0),
       Dir("space", <<>>, "", 1),
       Dir("size", StapsdtBase, "", 1),
       Dir("popsection", <<>>, "", 0),
       Dir("endif", <<>>, "", 0) >>

\* The note between .pushsection .note.stapsdt and .popsection.
Note(sema_field, prov, probe, arguments) ==
    [section |-> ".note.stapsdt, \"\", \"note\"",
     type |-> 3,
     vendor |-> "stapsdt",
     pc |-> "990b",
     base |-> StapsdtBase,
     sema |-> sema_field,
     provider |-> prov,
     probe |-> probe,
     arguments |-> arguments]

\* The semaphore defined without the .ifndef guard.
emit_isenabled_probe_record_Unguarded(prov, probe) ==
    LET sema_name == SemaPrefix \o prov \o <<"_">> \o probe
        block == SemaphoreBlock(sema_name)
    IN  [ok |-> TRUE, err |-> "none",
         pre |-> SubSeq(block, 2, Len(block) - 1),
         note |-> Note(sema_name, prov, Replace(probe, <<"_", "_">>, <<"-">>), <<>>),
         post |-> BaseBlock]

\* The provider name run through the substitution as well.
emit_isenabled_probe_record_BothReplaced(prov, probe) ==
    LET sema_name == SemaPrefix \o prov \o <<"_">> \o probe
    IN  [ok |-> TRUE, err |-> "none",
         pre |-> SemaphoreBlock(sema_name),
         note |-> Note(sema_name, Replace(prov, <<"_", "_">>, <<"-">>),
                       Replace(probe, <<"_", "_">>, <<"-">>), <<>>),
         post |-> BaseBlock]

emit_isenabled_probe_record(prov, probe) ==
    LET sema_name == SemaPrefix \o prov \o <<"_">> \o probe
    IN  [ok |-> TRUE, err |-> "none",
         pre |-> SemaphoreBlock(sema_name),
         note |-> Note(sema_name, prov, Replace(probe, <<"_", "_">>, <<"-">>), <<>>),
         post |-> BaseBlock]

\* The firing record carrying the semaphore of the is-enabled record.
emit_probe_record_WithSemaphore(prov, probe, types) ==
    LET ops == [i \in 1..Len(types.v) |-> to_asm_op(types.v[i], i - 1)]
        entries == [i \in 1..Len(types.v) |->
                       IntToString(to_asm_size(types.v[i])) \o <<"@">> \o ops[i].op]
        arguments == IF types.some THEN Join(entries, <<" ">>) ELSE <<>>
    IN  [ok |-> TRUE, err |-> "none",
         pre |-> <<>>,
         note |-> Note(SemaPrefix \o prov \o <<"_">> \o probe, prov,
                       Replace(probe, <<"_", "_">>, <<"-">>), arguments),
         post |-> BaseBlock]

\* The firing record leaving the anchor to the is-enabled record.
emit_probe_record_NoBase(prov, probe, types) ==
    LET ops == [i \in 1..Len(types.v) |-> to_asm_op(types.v[i], i - 1)]
        entries == [i \in 1..Len(types.v) |->
                       IntToString(to_asm_size(types.v[i])) \o <<"@">> \o ops[i].op]
        arguments == IF types.some THEN Join(entries, <<" ">>) ELSE <<>>
    IN  [ok |-> TRUE, err |-> "none",
         pre |-> <<>>,
         note |-> Note(<<"0">>, prov, Replace(probe, <<"_", "_">>, <<"-">>),
                       arguments),
         post |-> <<>>]

\* The register index counted from 1 instead of 0.
emit_probe_record_IndexFromOne(prov, probe, types) ==
    LET ops == [i \in 1..Len(types.v) |-> to_asm_op(types.v[i], i)]
        entries == [i \in 1..Len(types.v) |->
                       IntToString(to_asm_size(types.v[i])) \o <<"@">> \o ops[i].op]
        arguments == IF types.some THEN Join(entries, <<" ">>) ELSE <<>>
    IN  IF types.some /\ \E i \in 1..Len(types.v) : ~ops[i].ok
        THEN [ok |-> FALSE, err |-> "UnsupportedArity",
              pre |-> <<>>, note |-> Note(<<>>, <<>>, <<>>, <<>>), post |-> <<>>]
        ELSE [ok |-> TRUE, err |-> "none",
              pre |-> <<>>,
              note |-> Note(<<"0">>, prov, Replace(probe, <<"_", "_">>, <<"-">>),
                            arguments),
              post |-> BaseBlock]

emit_probe_record(prov, probe, types) ==
    LET ops == [i \in 1..Len(types.v) |-> to_asm_op(types.v[i], i - 1)]
        entries == [i \in 1..Len(types.v) |->
                       IntToString(to_asm_size(types.v[i])) \o <<"@">> \o ops[i].op]
        arguments == IF types.some THEN Join(entries, <<" ">>) ELSE <<>>
    IN  IF types.some /\ \E i \in 1..Len(types.v) : ~ops[i].ok
        THEN [ok |-> FALSE, err |-> "UnsupportedArity",
              pre |-> <<>>, note |-> Note(<<>>, <<>>, <<>>, <<>>), post |-> <<>>]
        ELSE [ok |-> TRUE, err |-> "none",
              pre |-> <<>>,
              note |-> Note(<<"0">>, prov, Replace(probe, <<"_", "_">>, <<"-">>),
                            arguments),
              post |-> BaseBlock]

(***************************************************************************)
(* The argument marshaller and the macro synthesizer of usdt-impl's        *)
(* `common` module, which stap3.rs calls.                                  *)
(***************************************************************************)
\* How the unpack block binds a value of the type to its slot.
asm_type_convert(typ) ==
    CASE typ \in UnsignedTypes \cup SignedTypes -> "direct"
      [] typ = "char *" -> "cstring"
      [] OTHER -> "json"

\* (unpacked_args, in_regs): the unpack block calls the thunk once and binds
\* arg_0..arg_{n-1}; in_regs pins slot i to the ABI register of position i.
construct_probe_args(types) ==
    LET regs == [i \in 1..Len(types) |-> to_asm_op("uint64_t", i - 1)]
    IN  [ok |-> \A i \in 1..Len(types) : regs[i].ok,
         err |-> IF \A i \in 1..Len(types) : regs[i].ok
                 THEN "none" ELSE "UnsupportedArity",
         unpacked_args |-> [i \in 1..Len(types) |->
                               [slot |-> i - 1, conv |-> asm_type_convert(types[i])]],
         in_regs |-> [i \in 1..Len(types) |-> [slot |-> i - 1, reg |-> regs[i].op]]]

\* The macro <provider>::<probe>!, taking one nullary thunk.
build_probe_macro(config, provider, probe_name, types, impl_block) ==
    [ok |-> TRUE, err |-> "none",
     provider |-> provider.name, name |-> probe_name, types |-> types,
     impl_block |-> impl_block]

NoMacro(err) == [ok |-> FALSE, err |-> err]

(***************************************************************************)
(* stap3.rs: compile_probe, compile_provider.                              *)
(***************************************************************************)
compile_probe(provider, probe, config) ==
    LET pa == construct_probe_args(probe.types)
        isenabled_probe_rec == emit_isenabled_probe_record(provider.name, probe.name)
        probe_rec == emit_probe_record(provider.name, probe.name, Some(probe.types))
        sema_name == SemaPrefix \o provider.name \o <<"_">> \o probe.name
        impl_block == [sema_name |-> sema_name,
                       isenabled_probe_rec |-> isenabled_probe_rec,
                       probe_rec |-> probe_rec,
                       unpacked_args |-> pa.unpacked_args,
                       in_regs |-> pa.in_regs]
    IN  IF ~pa.ok THEN NoMacro(pa.err)
        ELSE IF ~probe_rec.ok THEN NoMacro(probe_rec.err)
        ELSE build_probe_macro(config, provider, probe.name, probe.types, impl_block)

\* CompileProvidersConfig::module_ident: the configured module name, or the
\* provider's name.
module_ident(config, provider) ==
    IF config.module.some THEN config.module.v ELSE provider.name

\* The probes that fail to compile dropped from the module.
compile_provider_SkipFailed(provider, config) ==
    LET all == [i \in 1..Len(provider.probes) |->
                   compile_probe(provider, provider.probes[i], config)]
        probe_impls == SelectSeq(all, LAMBDA m : m.ok)
    IN  [ok |-> TRUE, err |-> "none",
         module |-> module_ident(config, provider),
         probe_impls |-> probe_impls]

compile_provider(provider, config) ==
    LET probe_impls == [i \in 1..Len(provider.probes) |->
                           compile_probe(provider, provider.probes[i], config)]
    IN  IF \E i \in 1..Len(probe_impls) : ~probe_impls[i].ok
        THEN [ok |-> FALSE,
              err |-> probe_impls[CHOOSE i \in 1..Len(probe_impls) :
                                     /\ ~probe_impls[i].ok
                                     /\ \A j \in 1..(i - 1) : probe_impls[j].ok].err,
              module |-> <<>>, probe_impls |-> <<>>]
        ELSE [ok |-> TRUE, err |-> "none",
              module |-> module_ident(config, provider),
              probe_impls |-> probe_impls]

compile_provider_from_definition(provider, config) == compile_provider(provider, config)

(***************************************************************************)
(* stap3.rs: compile_provider_source.  A D source is held as the outcome   *)
(* of dtrace_parser::File::try_from: a parse failure, or the providers of  *)
(* the file in declaration order.                                          *)
(***************************************************************************)
DFile(ok, providers) == [ok |-> ok, providers |-> providers]

\* Provider::from(dtrace_parser::Provider): name and probes carried over.
ProviderFrom(p) == [name |-> p.name, probes |-> p.probes]

\* The caller's module name kept out of the per-provider configuration.
provider_config_NoOverride(provider, config) ==
    [provider |-> Some(provider.name),
     probe_format |-> config.probe_format,
     module |-> Some(provider.name)]

\* The configuration handed to compile_provider for one provider of the file.
provider_config(provider, config) ==
    [provider |-> Some(provider.name),
     probe_format |-> config.probe_format,
     module |-> IF ~config.module.some THEN Some(provider.name) ELSE config.module]

compile_provider_source(source, config) ==
    IF ~source.ok
    THEN [ok |-> FALSE, err |-> "ParseError", providers |-> <<>>]
    ELSE LET providers ==
                 [i \in 1..Len(source.providers) |->
                     LET provider == ProviderFrom(source.providers[i])
                         cfg == provider_config(provider, config)
                     IN  [config |-> cfg, tokens |-> compile_provider(provider, cfg)]]
             failed == {i \in 1..Len(providers) : ~providers[i].tokens.ok}
         IN  IF failed # {}
             THEN [ok |-> FALSE,
                   err |-> providers[CHOOSE i \in failed :
                                        \A j \in failed : i <= j].tokens.err,
                   providers |-> <<>>]
             ELSE [ok |-> TRUE, err |-> "none", providers |-> providers]

(***************************************************************************)
(* Build time: the providers handed to the compiler.                       *)
(***************************************************************************)
S_does__it == <<"d", "o", "e", "s", "_", "_", "i", "t">>
S_test == <<"t", "e", "s", "t">>
S_a_b == <<"a", "_", "b">>
S_a == <<"a">>
S_work == <<"w", "o", "r", "k">>
S_start == <<"s", "t", "a", "r", "t">>
S_b_c == <<"b", "_", "c">>
S_c == <<"c">>
S_stop__now == <<"s", "t", "o", "p", "_", "_", "n", "o", "w">>
S_mymod == <<"m", "y", "m", "o", "d">>

ProviderNames == {S_does__it, S_test, S_a_b}
NameChars == {"a", "_"}
GenNames == UNION {[1..n -> NameChars] : n \in 1..MaxNameLen}
ArityTypes == {"uint8_t", "char *"}
LongTypeLists == UNION {[1..n -> ArityTypes] : n \in 0..MaxParams}
ShortTypeLists == UNION {[1..n -> DataTypes] : n \in 0..MaxShort}

Probe(name, types) == [name |-> name, types |-> types]
Provider(name, probes) == [name |-> name, probes |-> probes]

SingleProbes ==
    {Probe(n, <<"uint8_t">>) : n \in GenNames \cup {S_work}}
    \cup {Probe(S_work, t) : t \in LongTypeLists \cup ShortTypeLists}

CatalogProbes ==
    {Probe(S_work, <<"uint8_t", "char *">>), Probe(S_start, <<"uint8_t">>),
     Probe(S_stop__now, <<>>),
     Probe(S_c, <<"int8_t", "uint64_t", "int32_t", "char *", "uint16_t", "int64_t",
                  "Serializable">>)}

DistinctNames(ps) == \A i, j \in 1..Len(ps) : ps[i].name = ps[j].name => i = j

CompileInputs ==
    {Provider(pn, <<p>>) : pn \in ProviderNames, p \in SingleProbes}
    \cup {Provider(pn, ps) : pn \in ProviderNames,
              ps \in {q \in UNION {[1..n -> CatalogProbes] : n \in {0} \cup 2..MaxProbes} :
                         DistinctNames(q)}}

Config(module) == [provider |-> None, probe_format |-> None, module |-> module]
Configs == {Config(None), Config(Some(S_mymod))}

NotCompiled == [done |-> FALSE, via |-> "none", result |-> <<>>]

SourceProbeLists ==
    {<<>>,
     <<Probe(S_work, <<"uint8_t", "char *">>)>>,
     <<Probe(S_start, <<"uint8_t">>), Probe(S_stop__now, <<>>)>>,
     <<Probe(S_stop__now, <<>>), Probe(S_start, <<"uint8_t">>)>>,
     <<Probe(S_c, <<"int8_t", "uint64_t", "int32_t", "char *", "uint16_t", "int64_t",
                    "Serializable">>)>>}

SourceProviderNames == ProviderNames \cup {S_a}

SourceProviders == {Provider(pn, ps) : pn \in SourceProviderNames, ps \in SourceProbeLists}

\* The D sources compiled: one that does not parse, and files of up to
\* MaxProviders providers of different names.
SourceInputs ==
    {DFile(FALSE, <<>>)}
    \cup {DFile(TRUE, ps) :
              ps \in {q \in UNION {[1..n -> SourceProviders] : n \in 0..MaxProviders} :
                         DistinctNames(q)}}

EmptySource == DFile(TRUE, <<>>)

BuildIdle ==
    /\ c_source = EmptySource
    /\ c_provider = Provider(<<>>, <<>>)
    /\ c_config = Config(None)
    /\ c_output = NotCompiled

BuildInit ==
    /\ c_source = EmptySource
    /\ c_provider \in CompileInputs
    /\ c_config \in Configs
    /\ c_output = NotCompiled

\* The build driver compiles the provider definition.
CompileProviderFromDefinition ==
    /\ ~c_output.done
    /\ c_output' = [done |-> TRUE, via |-> "definition",
                    result |-> compile_provider_from_definition(c_provider, c_config)]
    /\ UNCHANGED <<c_source, c_provider, c_config, asm_vars, run_vars>>

SourceInit ==
    /\ c_source \in SourceInputs
    /\ c_provider = Provider(<<>>, <<>>)
    /\ c_config \in Configs
    /\ c_output = NotCompiled

\* The build driver compiles the D source.
CompileProviderSource ==
    /\ ~c_output.done
    /\ c_output' = [done |-> TRUE, via |-> "source",
                    result |-> compile_provider_source(c_source, c_config)]
    /\ UNCHANGED <<c_source, c_provider, c_config, asm_vars, run_vars>>

(***************************************************************************)
(* Assembly time: the assembler reads the directives the records carry.    *)
(***************************************************************************)
NoSymbol == [defs |-> 0, weak |-> FALSE, hidden |-> FALSE, section |-> "",
             size |-> 0, zeros |-> 0, type |-> ""]

SymOf(tab, sym) == IF sym \in DOMAIN tab THEN tab[sym] ELSE NoSymbol

SetSym(tab, sym, v) == [x \in DOMAIN tab \cup {sym} |-> IF x = sym THEN v ELSE tab[x]]

IsDefined(tab, sym) == SymOf(tab, sym).defs > 0

AsmStart(tab) == [tab |-> tab, skip |-> FALSE, stack |-> <<>>, last |-> <<>>]

\* One directive.  Inside an .ifndef whose symbol is defined everything up to
\* the .endif is skipped.
AsmStep(st, d) ==
    IF st.skip
    THEN IF d.k = "endif" THEN [st EXCEPT !.skip = FALSE] ELSE st
    ELSE CASE d.k = "ifndef" -> [st EXCEPT !.skip = IsDefined(st.tab, d.sym)]
           [] d.k = "endif" -> st
           [] d.k = "pushsection" -> [st EXCEPT !.stack = <<d.arg>> \o st.stack]
           [] d.k = "popsection" -> [st EXCEPT !.stack = Tail(st.stack)]
           [] d.k = "weak" ->
                [st EXCEPT !.tab = SetSym(st.tab, d.sym,
                                          [SymOf(st.tab, d.sym) EXCEPT !.weak = TRUE])]
           [] d.k = "hidden" ->
                [st EXCEPT !.tab = SetSym(st.tab, d.sym,
                                          [SymOf(st.tab, d.sym) EXCEPT !.hidden = TRUE])]
           [] d.k = "label" ->
                [st EXCEPT !.tab = SetSym(st.tab, d.sym,
                                          [SymOf(st.tab, d.sym) EXCEPT
                                              !.defs = @ + 1,
                                              !.section = st.stack[1]]),
                           !.last = d.sym]
           [] d.k \in {"zero", "space"} ->
                [st EXCEPT !.tab = SetSym(st.tab, st.last,
                                          [SymOf(st.tab, st.last) EXCEPT
                                              !.zeros = @ + d.n])]
           [] d.k = "type" ->
                [st EXCEPT !.tab = SetSym(st.tab, d.sym,
                                          [SymOf(st.tab, d.sym) EXCEPT !.type = d.arg])]
           [] d.k = "size" ->
                [st EXCEPT !.tab = SetSym(st.tab, d.sym,
                                          [SymOf(st.tab, d.sym) EXCEPT !.size = d.n])]
           [] OTHER -> st

RECURSIVE AsmRun(_, _)
AsmRun(st, dirs) ==
    IF Len(dirs) = 0 THEN st ELSE AsmRun(AsmStep(st, Head(dirs)), Tail(dirs))

\* The symbol table after a record's text: the directives before the note,
\* the note (which defines nothing), the directives after it.
AssembleText(tab, rec) == AsmRun(AsmRun(AsmStart(tab), rec.pre), rec.post).tab

AsmProbes ==
    { [provider |-> Provider(S_a_b, <<>>), probe |-> Probe(S_c, <<"uint8_t">>)],
      [provider |-> Provider(S_a, <<>>), probe |-> Probe(S_b_c, <<>>)],
      [provider |-> Provider(S_does__it, <<>>),
       probe |-> Probe(S_work, <<"uint8_t", "char *">>)],
      [provider |-> Provider(S_test, <<>>),
       probe |-> Probe(S_stop__now, <<"Serializable">>)] }

AsmIdle ==
    /\ sites = <<>>
    /\ symtab = <<>>
    /\ notes = <<>>
    /\ anchor_log = <<>>

AsmInit == AsmIdle

\* A call site of a probe macro is expanded: the impl_block of compile_probe,
\* with its extern declaration and its two asm! blocks.
ExpandProbeMacro(p) ==
    /\ Len(sites) < MaxSites
    /\ LET macro == compile_probe(p.provider, p.probe, Config(None))
       IN  /\ macro.ok
           /\ sites' = Append(sites, [provider |-> p.provider.name,
                                      probe |-> p.probe,
                                      impl_block |-> macro.impl_block,
                                      assembled |-> {}])
    /\ UNCHANGED <<symtab, notes, anchor_log, build_vars, run_vars>>

RecordOf(site, which) ==
    IF which = "isenabled" THEN site.impl_block.isenabled_probe_rec
    ELSE site.impl_block.probe_rec

\* The assembler reaches one asm! block of an expanded call site.
AssembleRecord(i, which) ==
    /\ i \in 1..Len(sites)
    /\ which \notin sites[i].assembled
    /\ LET rec == RecordOf(sites[i], which)
           tab == AssembleText(symtab, rec)
       IN  /\ symtab' = tab
           /\ notes' = Append(notes, [site |-> i, which |-> which, note |-> rec.note])
           /\ anchor_log' = Append(anchor_log,
                                   [before |-> SymOf(symtab, StapsdtBase).defs,
                                    after |-> SymOf(tab, StapsdtBase).defs])
    /\ sites' = [sites EXCEPT ![i].assembled = @ \cup {which}]
    /\ UNCHANGED <<build_vars, run_vars>>

(***************************************************************************)
(* Run time.                                                               *)
(***************************************************************************)
Threads == {"main", "worker"}

\* is_active: u16
SemaModulus == 65536

S_test_json == <<"t", "e", "s", "t", "_", "j", "s", "o", "n">>
S_good == <<"g", "o", "o", "d">>
S_bad == <<"b", "a", "d">>

SERIALIZATION_ERROR == "nonono"

IntValue(kind, n) == [kind |-> kind, int |-> n, str |-> ""]
StrValue(kind, s) == [kind |-> kind, int |-> 0, str |-> s]

\* The call sites of the run, by the name of the macro invoked.
RunCalls == {"test_json::good", "test_json::bad", "does__it::work"}

\* The probe a call site invokes and the tuple its thunk returns.
CallSite(c) ==
    CASE c = "test_json::good" ->
            [provider |-> Provider(S_test_json, <<>>),
             probe |-> Probe(S_good, <<"Serializable">>),
             thunk |-> <<StrValue("ProbeArg", "{\"value\":1,\"buffer\":[1,2,3]}")>>]
      [] c = "test_json::bad" ->
            [provider |-> Provider(S_test_json, <<>>),
             probe |-> Probe(S_bad, <<"Serializable">>),
             thunk |-> <<StrValue("NotJsonSerializable", "")>>]
      [] c = "does__it::work" ->
            [provider |-> Provider(S_does__it, <<>>),
             probe |-> Probe(S_work, <<"uint8_t", "char *">>),
             thunk |-> <<IntValue("u8", 0), StrValue("str", "something")>>]

NoCall == "none"

\* The entry point generated for a call: the impl_block of compile_probe.
EntryPoint(c) ==
    compile_probe(CallSite(c).provider, CallSite(c).probe, Config(None)).impl_block

Semaphores == {EntryPoint(c).sema_name : c \in RunCalls}

\* <NotJsonSerializable as Serialize>::serialize fails; the derived
\* implementation of ProbeArg renders the value.
to_json(v) ==
    IF v.kind = "NotJsonSerializable"
    THEN [ok |-> FALSE, json |-> "", err |-> SERIALIZATION_ERROR]
    ELSE [ok |-> TRUE, json |-> v.str, err |-> ""]

\* The unpack block's binding of one value to its slot.
BindSlot(conv, v) ==
    CASE conv = "direct" -> IntValue("int", v.int)
      [] conv = "cstring" -> StrValue("cstr", v.str)
      [] OTHER -> LET r == to_json(v)
                  IN  IF r.ok THEN StrValue("cstr", r.json) ELSE StrValue("cstr", r.err)

RunIdle ==
    /\ sema = [s \in Semaphores |-> 0]
    /\ attached = [s \in Semaphores |-> 0]
    /\ pc = [t \in Threads |-> "idle"]
    /\ cur = [t \in Threads |-> NoCall]
    /\ is_enabled = [t \in Threads |-> 0]
    /\ args = [t \in Threads |-> <<>>]
    /\ slots = [t \in Threads |-> <<>>]
    /\ trace = [t \in Threads |-> <<>>]
    /\ invocations = 0
    /\ nonzero_reads = 0
    /\ thunk_calls = 0
    /\ fired = 0
    /\ reg_calls = 0
    /\ reg_result = "none"

RunInit == RunIdle

TotalAttached == LET RECURSIVE Sum(_)
                     Sum(S) == IF S = {} THEN 0
                               ELSE LET x == CHOOSE y \in S : TRUE
                                    IN  attached[x] + Sum(S \ {x})
                 IN  Sum(Semaphores)

\* The tracer attaches a consumer to a probe: the semaphore is incremented.
AttachStep(s) ==
    /\ attached' = [attached EXCEPT ![s] = @ + 1]
    /\ sema' = [sema EXCEPT ![s] = (@ + 1) % SemaModulus]
    /\ UNCHANGED <<pc, cur, is_enabled, args, slots, trace, invocations,
                   nonzero_reads, thunk_calls, fired, reg_calls, reg_result,
                   build_vars, asm_vars>>

Attach(s) ==
    /\ TotalAttached < MaxConsumers
    /\ AttachStep(s)

\* The tracer detaches a consumer: the semaphore is decremented.
DetachStep(s) ==
    /\ attached' = [attached EXCEPT ![s] = @ - 1]
    /\ sema' = [sema EXCEPT ![s] = (@ + SemaModulus - 1) % SemaModulus]
    /\ UNCHANGED <<pc, cur, is_enabled, args, slots, trace, invocations,
                   nonzero_reads, thunk_calls, fired, reg_calls, reg_result,
                   build_vars, asm_vars>>

Detach(s) ==
    /\ attached[s] > 0
    /\ DetachStep(s)

\* A thread reaches a call site of a probe macro.
Invoke(t, c) ==
    /\ pc[t] = "idle"
    /\ invocations < MaxInvocations
    /\ invocations' = invocations + 1
    /\ pc' = [pc EXCEPT ![t] = "isenabled_trap"]
    /\ cur' = [cur EXCEPT ![t] = c]
    /\ is_enabled' = [is_enabled EXCEPT ![t] = 0]
    /\ args' = [args EXCEPT ![t] = <<>>]
    /\ slots' = [slots EXCEPT ![t] = <<>>]
    /\ trace' = [trace EXCEPT ![t] = <<>>]
    /\ UNCHANGED <<sema, attached, nonzero_reads, thunk_calls, fired, reg_calls,
                   reg_result, build_vars, asm_vars>>

\* asm!("990: nop", isenabled_probe_rec)
IsEnabledTrap(t) ==
    /\ pc[t] = "isenabled_trap"
    /\ trace' = [trace EXCEPT ![t] = Append(@, "isenabled_trap")]
    /\ pc' = [pc EXCEPT ![t] = "sema_read"]
    /\ UNCHANGED <<sema, attached, cur, is_enabled, args, slots, invocations,
                   nonzero_reads, thunk_calls, fired, reg_calls, reg_result,
                   build_vars, asm_vars>>

\* The read done as test-and-clear: the entry point writes the semaphore.
ReadSemaphore_Consume(t) ==
    /\ pc[t] = "sema_read"
    /\ LET name == EntryPoint(cur[t]).sema_name
           v == sema[name]
       IN  /\ is_enabled' = [is_enabled EXCEPT ![t] = v]
           /\ nonzero_reads' = IF v # 0 THEN nonzero_reads + 1 ELSE nonzero_reads
           /\ sema' = [sema EXCEPT ![name] = 0]
    /\ trace' = [trace EXCEPT ![t] = Append(@, "sema_read")]
    /\ pc' = [pc EXCEPT ![t] = "check"]
    /\ UNCHANGED <<attached, cur, args, slots, invocations, thunk_calls,
                   fired, reg_calls, reg_result, build_vars, asm_vars>>

\* is_enabled = addr_of!(sema.is_active).read_volatile()
ReadSemaphore(t) ==
    /\ pc[t] = "sema_read"
    /\ LET v == sema[EntryPoint(cur[t]).sema_name]
       IN  /\ is_enabled' = [is_enabled EXCEPT ![t] = v]
           /\ nonzero_reads' = IF v # 0 THEN nonzero_reads + 1 ELSE nonzero_reads
    /\ trace' = [trace EXCEPT ![t] = Append(@, "sema_read")]
    /\ pc' = [pc EXCEPT ![t] = "check"]
    /\ UNCHANGED <<sema, attached, cur, args, slots, invocations, thunk_calls,
                   fired, reg_calls, reg_result, build_vars, asm_vars>>

\* The unpack block and the firing site outside the `if`.
CheckEnabled_Ungated(t) ==
    /\ pc[t] = "check"
    /\ pc' = [pc EXCEPT ![t] = "thunk"]
    /\ UNCHANGED <<sema, attached, cur, is_enabled, args, slots, trace, invocations,
                   nonzero_reads, thunk_calls, fired, reg_calls, reg_result,
                   build_vars, asm_vars>>

\* The firing asm! block placed ahead of the unpack block.
CheckEnabled_FireFirst(t) ==
    /\ pc[t] = "check"
    /\ IF is_enabled[t] # 0
       THEN /\ fired' = fired + 1
            /\ trace' = [trace EXCEPT ![t] = Append(@, "fire_trap")]
            /\ pc' = [pc EXCEPT ![t] = "thunk"]
       ELSE /\ pc' = [pc EXCEPT ![t] = "ret"]
            /\ UNCHANGED <<fired, trace>>
    /\ UNCHANGED <<sema, attached, cur, is_enabled, args, slots, invocations,
                   nonzero_reads, thunk_calls, reg_calls, reg_result,
                   build_vars, asm_vars>>

\* The value read compared as a signed 16-bit integer: if is_enabled > 0.
CheckEnabled_Signed(t) ==
    /\ pc[t] = "check"
    /\ pc' = [pc EXCEPT ![t] = IF is_enabled[t] # 0 /\ is_enabled[t] < SemaModulus \div 2
                               THEN "thunk" ELSE "ret"]
    /\ UNCHANGED <<sema, attached, cur, is_enabled, args, slots, trace, invocations,
                   nonzero_reads, thunk_calls, fired, reg_calls, reg_result,
                   build_vars, asm_vars>>

\* if is_enabled != 0 { ... }
CheckEnabled(t) ==
    /\ pc[t] = "check"
    /\ pc' = [pc EXCEPT ![t] = IF is_enabled[t] # 0 THEN "thunk" ELSE "ret"]
    /\ UNCHANGED <<sema, attached, cur, is_enabled, args, slots, trace, invocations,
                   nonzero_reads, thunk_calls, fired, reg_calls, reg_result,
                   build_vars, asm_vars>>

\* unpacked_args: the thunk is called
CallThunk(t) ==
    /\ pc[t] = "thunk"
    /\ args' = [args EXCEPT ![t] = CallSite(cur[t]).thunk]
    /\ thunk_calls' = thunk_calls + 1
    /\ trace' = [trace EXCEPT ![t] = Append(@, "thunk")]
    /\ pc' = [pc EXCEPT ![t] = "marshal"]
    /\ UNCHANGED <<sema, attached, cur, is_enabled, slots, invocations,
                   nonzero_reads, fired, reg_calls, reg_result, build_vars, asm_vars>>

\* A serializer error leaves the impl_block before the firing site.
Marshal_AbortOnError(t) ==
    /\ pc[t] = "marshal"
    /\ LET ua == EntryPoint(cur[t]).unpacked_args
           failed == \E i \in 1..Len(ua) :
                        ua[i].conv = "json" /\ ~to_json(args[t][ua[i].slot + 1]).ok
       IN  /\ slots' = [slots EXCEPT ![t] =
                          IF failed THEN <<>>
                          ELSE [i \in 1..Len(ua) |->
                                   BindSlot(ua[i].conv, args[t][ua[i].slot + 1])]]
           /\ pc' = [pc EXCEPT ![t] = IF failed THEN "ret" ELSE "fire_trap"]
    /\ trace' = [trace EXCEPT ![t] = Append(@, "marshal")]
    /\ UNCHANGED <<sema, attached, cur, is_enabled, args, invocations,
                   nonzero_reads, thunk_calls, fired, reg_calls, reg_result,
                   build_vars, asm_vars>>

\* unpacked_args: arg_0 .. arg_{n-1} are bound
Marshal(t) ==
    /\ pc[t] = "marshal"
    /\ LET ua == EntryPoint(cur[t]).unpacked_args
       IN  slots' = [slots EXCEPT ![t] =
                        [i \in 1..Len(ua) |-> BindSlot(ua[i].conv, args[t][ua[i].slot + 1])]]
    /\ trace' = [trace EXCEPT ![t] = Append(@, "marshal")]
    /\ pc' = [pc EXCEPT ![t] = "fire_trap"]
    /\ UNCHANGED <<sema, attached, cur, is_enabled, args, invocations,
                   nonzero_reads, thunk_calls, fired, reg_calls, reg_result,
                   build_vars, asm_vars>>

\* asm!("990: nop", probe_rec, in_regs)
FireTrap(t) ==
    /\ pc[t] = "fire_trap"
    /\ fired' = fired + 1
    /\ trace' = [trace EXCEPT ![t] = Append(@, "fire_trap")]
    /\ pc' = [pc EXCEPT ![t] = "ret"]
    /\ UNCHANGED <<sema, attached, cur, is_enabled, args, slots, invocations,
                   nonzero_reads, thunk_calls, reg_calls, reg_result,
                   build_vars, asm_vars>>

\* The end of the impl_block.
Return(t) ==
    /\ pc[t] = "ret"
    /\ pc' = [pc EXCEPT ![t] = "idle"]
    /\ UNCHANGED <<sema, attached, cur, is_enabled, args, slots, trace, invocations,
                   nonzero_reads, thunk_calls, fired, reg_calls, reg_result,
                   build_vars, asm_vars>>

\* Registration that succeeds only the first time.
register_probes_once == IF reg_calls = 0 THEN "Ok" ELSE "RegistrationFailed"

register_probes == "Ok"

\* usdt::register_probes()
RegisterProbes ==
    /\ reg_calls < MaxRegCalls
    /\ reg_calls' = reg_calls + 1
    /\ reg_result' = register_probes
    /\ UNCHANGED <<sema, attached, pc, cur, is_enabled, args, slots, trace,
                   invocations, nonzero_reads, thunk_calls, fired,
                   build_vars, asm_vars>>

(***************************************************************************)
(* The specifications.                                                     *)
(***************************************************************************)
Init == BuildIdle /\ AsmIdle /\ RunInit

Next ==
    \/ \E s \in Semaphores : Attach(s)
    \/ \E s \in Semaphores : Detach(s)
    \/ \E t \in Threads, c \in RunCalls : Invoke(t, c)
    \/ \E t \in Threads : IsEnabledTrap(t)
    \/ \E t \in Threads : ReadSemaphore(t)
    \/ \E t \in Threads : CheckEnabled(t)
    \/ \E t \in Threads : CallThunk(t)
    \/ \E t \in Threads : Marshal(t)
    \/ \E t \in Threads : FireTrap(t)
    \/ \E t \in Threads : Return(t)
    \/ RegisterProbes

Spec == Init /\ [][Next]_vars

InitCompile == BuildInit /\ AsmIdle /\ RunIdle

NextCompile == CompileProviderFromDefinition

SpecCompile == InitCompile /\ [][NextCompile]_vars

InitSource == SourceInit /\ AsmIdle /\ RunIdle

NextSource == CompileProviderSource

SpecSource == InitSource /\ [][NextSource]_vars

InitAsm == BuildIdle /\ AsmInit /\ RunIdle

NextAsm ==
    \/ \E p \in AsmProbes : ExpandProbeMacro(p)
    \/ \E i \in 1..MaxSites, which \in {"isenabled", "probe"} : AssembleRecord(i, which)

SpecAsm == InitAsm /\ [][NextAsm]_vars

\* One probe, invoked from every thread while the tracer attaches and detaches
\* consumers, either from none or around the limit of the 16-bit counter.
SemaCalls == {"does__it::work"}

SemaSyms == {EntryPoint(c).sema_name : c \in SemaCalls}

ConsumerCounts ==
    0..MaxConsumers \cup (SemaModulus - MaxBelowWrap)..(SemaModulus + MaxOverWrap)

StartCounts == {0, SemaModulus - MaxBelowWrap}

InitSema ==
    /\ BuildIdle /\ AsmIdle
    /\ \E n \in StartCounts :
          /\ attached = [s \in Semaphores |-> IF s \in SemaSyms THEN n ELSE 0]
          /\ sema = [s \in Semaphores |-> IF s \in SemaSyms THEN n % SemaModulus ELSE 0]
    /\ pc = [t \in Threads |-> "idle"]
    /\ cur = [t \in Threads |-> NoCall]
    /\ is_enabled = [t \in Threads |-> 0]
    /\ args = [t \in Threads |-> <<>>]
    /\ slots = [t \in Threads |-> <<>>]
    /\ trace = [t \in Threads |-> <<>>]
    /\ invocations = 0
    /\ nonzero_reads = 0
    /\ thunk_calls = 0
    /\ fired = 0
    /\ reg_calls = 0
    /\ reg_result = "none"

AttachMany(s) ==
    /\ attached[s] + 1 \in ConsumerCounts
    /\ AttachStep(s)

DetachMany(s) ==
    /\ attached[s] > 0
    /\ attached[s] - 1 \in ConsumerCounts
    /\ DetachStep(s)

NextSema ==
    \/ \E s \in SemaSyms : AttachMany(s)
    \/ \E s \in SemaSyms : DetachMany(s)
    \/ \E t \in Threads, c \in SemaCalls : Invoke(t, c)
    \/ \E t \in Threads : IsEnabledTrap(t)
    \/ \E t \in Threads : ReadSemaphore(t)
    \/ \E t \in Threads : CheckEnabled(t)
    \/ \E t \in Threads : CallThunk(t)
    \/ \E t \in Threads : Marshal(t)
    \/ \E t \in Threads : FireTrap(t)
    \/ \E t \in Threads : Return(t)

SpecSema == InitSema /\ [][NextSema]_vars

(***************************************************************************)
(* Run-time properties (Spec).                                             *)
(***************************************************************************)
FullTrace == <<"isenabled_trap", "sema_read", "thunk", "marshal", "fire_trap">>

HasRead(t) == Len(trace[t]) >= 2

Finished(t) == pc[t] \in {"ret", "idle"} /\ HasRead(t)

\* C1: an invocation whose semaphore read returned 0 runs the is-enabled trap
\* site and the read and nothing else: no thunk, no marshalling, no firing trap
\* site; over any number of invocations the thunk runs and the probe fires at
\* most as often as a read returned a nonzero value.
C1_DisabledProbeDoesNoWork ==
    /\ \A t \in Threads :
          (HasRead(t) /\ is_enabled[t] = 0) =>
              /\ trace[t] = <<"isenabled_trap", "sema_read">>
              /\ args[t] = <<>>
              /\ slots[t] = <<>>
              /\ pc[t] \in {"check", "ret", "idle"}
    /\ thunk_calls <= nonzero_reads
    /\ fired <= nonzero_reads

C1_Witness ==
    /\ invocations >= 2
    /\ nonzero_reads = 0
    /\ thunk_calls = 0
    /\ \A t \in Threads : Finished(t) /\ is_enabled[t] = 0

\* C2: an invocation whose semaphore read returned a nonzero value runs the
\* is-enabled trap site, the read, the thunk, the marshalling and the firing
\* trap site in this order, each once; it never ends without the firing.
C2_EnabledProbeFiresInOrder ==
    \A t \in Threads :
       /\ Len(trace[t]) <= Len(FullTrace)
       /\ trace[t] = SubSeq(FullTrace, 1, Len(trace[t]))
       /\ (HasRead(t) /\ is_enabled[t] # 0) =>
              /\ pc[t] \in {"check", "thunk"} => Len(trace[t]) = 2
              /\ pc[t] = "marshal" => Len(trace[t]) = 3
              /\ pc[t] = "fire_trap" => Len(trace[t]) = 4
              /\ pc[t] \in {"ret", "idle"} => trace[t] = FullTrace
              /\ pc[t] # "isenabled_trap" /\ pc[t] # "sema_read"

C2_Witness ==
    \E t \in Threads : pc[t] = "ret" /\ is_enabled[t] # 0 /\ trace[t] = FullTrace

\* C8: when the probe is enabled and the serializer of the compound argument
\* fails, the invocation still reaches the firing trap site and returns, and
\* the argument slot holds the C string "nonono", the serializer's message.
C8_SerializerErrorStillFires ==
    \A t \in Threads :
       (cur[t] = "test_json::bad" /\ HasRead(t) /\ is_enabled[t] # 0) =>
           /\ pc[t] \in {"fire_trap", "ret", "idle"} =>
                  slots[t] = <<[kind |-> "cstr", int |-> 0, str |-> "nonono"]>>
           /\ pc[t] \in {"ret", "idle"} => trace[t][Len(trace[t])] = "fire_trap"
           /\ pc[t] \in {"check", "thunk", "marshal", "fire_trap", "ret", "idle"}

C8_Witness ==
    \E t \in Threads :
       /\ cur[t] = "test_json::bad"
       /\ pc[t] = "ret"
       /\ trace[t] = FullTrace
       /\ slots[t][1].str = "nonono"

\* C9: every call of register_probes returns success and changes nothing but
\* the record of the call itself, after any number of earlier calls; an
\* invocation fires exactly when its read was nonzero, whatever the number of
\* calls of register_probes.
C9_RegisterProbesIsNoOp ==
    /\ [][reg_calls' # reg_calls =>
             /\ reg_result' = "Ok"
             /\ UNCHANGED <<sema, attached, pc, cur, is_enabled, args, slots, trace,
                            invocations, nonzero_reads, thunk_calls, fired,
                            build_vars, asm_vars>>]_vars
    /\ [](\A t \in Threads :
             Finished(t) => (is_enabled[t] # 0 <=> trace[t] = FullTrace))

C9_Witness ==
    /\ reg_calls >= 2
    /\ reg_result = "Ok"
    /\ \E t \in Threads : pc[t] = "ret" /\ trace[t] = FullTrace

(***************************************************************************)
(* Build-time properties (SpecCompile).                                    *)
(***************************************************************************)
Compiled == c_output.done /\ c_output.result.ok

ImplOf(i) == c_output.result.probe_impls[i].impl_block

\* The pieces of s between the occurrences of the character ch.
RECURSIVE SplitOn(_, _)
SplitOn(s, ch) ==
    IF \A k \in 1..Len(s) : s[k] # ch THEN <<s>>
    ELSE LET k == CHOOSE j \in 1..Len(s) : s[j] = ch /\ \A m \in 1..(j - 1) : s[m] # ch
         IN  <<SubSeq(s, 1, k - 1)>> \o SplitOn(SubSeq(s, k + 1, Len(s)), ch)

SizeCodeText(typ) ==
    CASE typ = "uint8_t" -> <<"1">>
      [] typ = "uint16_t" -> <<"2">>
      [] typ = "uint32_t" -> <<"4">>
      [] typ = "uint64_t" -> <<"8">>
      [] typ = "int8_t" -> <<"-", "1">>
      [] typ = "int16_t" -> <<"-", "2">>
      [] typ = "int32_t" -> <<"-", "4">>
      [] typ = "int64_t" -> <<"-", "8">>
      [] typ = "char *" -> <<"8">>
      [] typ = "Serializable" -> <<"8">>

\* C3: the argument format of the firing record has one entry <size>@<operand>
\* per parameter, in declared order, entry i built from the size code of t_i
\* and the operand of register index i, separated by single spaces; it is
\* empty for no parameters, and (uint8_t, char *) gives "1@%dil 8@%rsi".
C3_ArgumentFormat ==
    Compiled =>
       \A i \in 1..Len(c_provider.probes) :
          LET types == c_provider.probes[i].types
              n == Len(types)
              a == ImplOf(i).probe_rec.note.arguments
              pieces == SplitOn(a, " ")
          IN  /\ n = 0 => a = <<>>
              /\ n > 0 =>
                    /\ Len(pieces) = n
                    /\ \A k \in 1..n :
                          pieces[k] = SizeCodeText(types[k]) \o <<"@">>
                                      \o AsmRegisters[integer_width(types[k])][k]
              /\ types = <<"uint8_t", "char *">> =>
                    a = <<"1", "@", "%", "d", "i", "l", " ",
                          "8", "@", "%", "r", "s", "i">>

C3_Witness ==
    /\ Compiled
    /\ Len(c_provider.probes) = 1
    /\ c_provider.probes[1].types = <<"uint8_t", "char *">>
    /\ Len(ImplOf(1).probe_rec.note.arguments) = 13

Contains(s, pat) == \E i \in 1..Len(s) : IsPrefixAt(s, i, pat)

\* Every "-" written back as "__".
RECURSIVE ExpandDashes(_)
ExpandDashes(s) ==
    IF Len(s) = 0 THEN <<>>
    ELSE (IF Head(s) = "-" THEN <<"_", "_">> ELSE <<Head(s)>>) \o ExpandDashes(Tail(s))

\* C5: in both records the provider name is the declared one verbatim, and the
\* probe name is the declared one with every "__" replaced by "-": no "__" is
\* left, and writing each "-" back as "__" gives the declared name.
C5_NameSubstitution ==
    Compiled =>
       \A i \in 1..Len(c_provider.probes) :
          \A note \in {ImplOf(i).isenabled_probe_rec.note, ImplOf(i).probe_rec.note} :
             /\ note.provider = c_provider.name
             /\ ExpandDashes(note.probe) = c_provider.probes[i].name
             /\ ~Contains(note.probe, <<"_", "_">>)
             /\ ~Contains(note.probe, <<"_", "-">>)
             /\ (c_provider.name = <<"d", "o", "e", "s", "_", "_", "i", "t">>
                 /\ c_provider.probes[i].name = <<"w", "o", "r", "k">>) =>
                    /\ note.provider = <<"d", "o", "e", "s", "_", "_", "i", "t">>
                    /\ note.probe = <<"w", "o", "r", "k">>

C5_Witness ==
    /\ Compiled
    /\ c_provider.name = S_does__it
    /\ Len(c_provider.probes) = 1
    /\ c_provider.probes[1].name = <<"a", "_", "_", "_">>
    /\ ImplOf(1).probe_rec.note.probe = <<"a", "-", "_">>
    /\ ImplOf(1).isenabled_probe_rec.note.provider = S_does__it

NotesOfSite(i) == SelectSeq(notes, LAMBDA e : e.site = i)

NoteOf(i, which) ==
    (CHOOSE e \in {notes[k] : k \in 1..Len(notes)} : e.site = i /\ e.which = which).note

\* The argument formats of the probes assembled, written out.
ExpectedArguments(types) ==
    CASE types = <<>> -> <<>>
      [] types = <<"uint8_t">> -> <<"1", "@", "%", "d", "i", "l">>
      [] types = <<"Serializable">> -> <<"8", "@", "%", "r", "d", "i">>
      [] types = <<"uint8_t", "char *">> ->
            <<"1", "@", "%", "d", "i", "l", " ", "8", "@", "%", "r", "s", "i">>

\* __usdt_sema_<P>_<Q> from the declared names.
SemaSymbol(site) ==
    <<"_", "_", "u", "s", "d", "t", "_", "s", "e", "m", "a", "_">>
    \o site.provider \o <<"_">> \o site.probe.name

\* C4: a compiled probe deposits exactly two notes with the same provider and
\* probe strings: the is-enabled note with no arguments and the semaphore
\* symbol in its semaphore field, the firing note with the argument format and
\* 0 in its semaphore field.
C4_TwoRecordsPerProbe ==
    \A i \in 1..Len(sites) :
       sites[i].assembled = {"isenabled", "probe"} =>
          /\ Len(NotesOfSite(i)) = 2
          /\ LET ie == NoteOf(i, "isenabled")
                 fr == NoteOf(i, "probe")
             IN  /\ ie.provider = fr.provider
                 /\ ie.probe = fr.probe
                 /\ ie.arguments = <<>>
                 /\ ie.sema = SemaSymbol(sites[i])
                 /\ IsDefined(symtab, ie.sema)
                 /\ fr.arguments = ExpectedArguments(sites[i].probe.types)
                 /\ fr.sema = <<"0">>

C4_Witness ==
    \E i \in 1..Len(sites) :
       /\ sites[i].assembled = {"isenabled", "probe"}
       /\ sites[i].probe.types = <<"uint8_t", "char *">>
       /\ Len(NotesOfSite(i)) = 2

\* C6: once an is-enabled record of probe (P, Q) is assembled, whatever the
\* number of call sites, __usdt_sema_<P>_<Q> is defined exactly once, weak,
\* hidden, a 2-byte zero-initialised object in .probes; the name is built from
\* the verbatim names and is the symbol the entry point declares extern.
C6_SemaphoreDefinedOnce ==
    \A i \in 1..Len(sites) :
       "isenabled" \in sites[i].assembled =>
          LET name == SemaSymbol(sites[i])
          IN  /\ name \in DOMAIN symtab
              /\ symtab[name] = [defs |-> 1, weak |-> TRUE, hidden |-> TRUE,
                                 section |-> ".probes, \"aw\", \"progbits\"",
                                 size |-> 2, zeros |-> 2, type |-> "@object"]
              /\ sites[i].impl_block.sema_name = name
              /\ NoteOf(i, "isenabled").sema = name

C6_Witness ==
    /\ Len(sites) = 2
    /\ sites[1].provider = sites[2].provider
    /\ sites[1].probe = sites[2].probe
    /\ sites[1].probe.name = S_stop__now
    /\ "isenabled" \in sites[1].assembled
    /\ "isenabled" \in sites[2].assembled

\* C7: after any non-empty sequence of assembled records, in any order,
\* _.stapsdt.base is defined exactly once, weak, hidden, 1 byte, in the
\* .stapsdt.base COMDAT section: the first record defines it, every later
\* record finds it defined and does not define it again.
C7_AnchorDefinedOnce ==
    Len(notes) > 0 =>
       /\ StapsdtBase \in DOMAIN symtab
       /\ symtab[StapsdtBase] =
             [defs |-> 1, weak |-> TRUE, hidden |-> TRUE,
              section |-> ".stapsdt.base, \"aG\", \"progbits\", .stapsdt.base, comdat",
              size |-> 1, zeros |-> 1, type |-> ""]
       /\ Len(anchor_log) = Len(notes)
       /\ anchor_log[1] = [before |-> 0, after |-> 1]
       /\ \A k \in 2..Len(anchor_log) : anchor_log[k] = [before |-> 1, after |-> 1]
       /\ \A k \in 1..Len(notes) : notes[k].note.base = StapsdtBase

C7_Witness ==
    /\ Len(notes) >= 3
    /\ notes[1].which = "probe"
    /\ notes[2].which = "probe"
    /\ symtab[StapsdtBase].defs = 1

(***************************************************************************)
(* Concurrency properties (SpecSema).                                      *)
(***************************************************************************)
\* __usdt_sema_<P>_<Q> of the probe a call site invokes.
SemaphoreOfCall(c) ==
    <<"_", "_", "u", "s", "d", "t", "_", "s", "e", "m", "a", "_">>
    \o CallSite(c).provider.name \o <<"_">> \o CallSite(c).probe.name

CountOf(seq, x) == Cardinality({k \in 1..Len(seq) : seq[k] = x})

\* C11: with threads invoking probes concurrently while the tracer changes the
\* semaphore, no step of an entry point writes a semaphore and a thread inside
\* an entry point can always take its next step, whatever the others do; an
\* invocation reads its semaphore once, its read returns
\* the value the semaphore has at that step, nothing else sets its is_enabled,
\* and it runs the thunk and the firing trap site exactly when that value was
\* nonzero: a later change of the semaphore reaches no later invocation's read.
C11_ConcurrentReadsOnly ==
    /\ [][sema' # sema =>
             /\ attached' # attached
             /\ UNCHANGED <<pc, cur, is_enabled, args, slots, trace>>]_vars
    /\ [][\A t \in Threads :
             /\ (pc[t] = "sema_read" /\ pc'[t] # "sema_read") =>
                    /\ is_enabled'[t] = sema[SemaphoreOfCall(cur[t])]
                    /\ pc'[t] = "check"
             /\ is_enabled'[t] # is_enabled[t] => pc[t] \in {"sema_read", "idle"}
             /\ (pc[t] = "check" /\ pc'[t] # "check") =>
                    pc'[t] = (IF is_enabled[t] # 0 THEN "thunk" ELSE "ret")]_vars
    /\ [](\A t \in Threads :
             /\ CountOf(trace[t], "sema_read") <= 1
             /\ Finished(t) =>
                    /\ CountOf(trace[t], "sema_read") = 1
                    /\ (is_enabled[t] # 0 <=> CountOf(trace[t], "thunk") = 1)
                    /\ (is_enabled[t] # 0 <=> CountOf(trace[t], "fire_trap") = 1)
                    /\ (is_enabled[t] = 0 =>
                           CountOf(trace[t], "thunk") + CountOf(trace[t], "fire_trap") = 0)
             /\ pc[t] # "idle" =>
                    ENABLED (\/ IsEnabledTrap(t) \/ ReadSemaphore(t) \/ CheckEnabled(t)
                             \/ CallThunk(t) \/ Marshal(t) \/ FireTrap(t) \/ Return(t)))

\* Two threads in the same probe at once: one read 0 and skips although a
\* consumer is attached by now, the other read a nonzero value and has fired.
C11_Witness ==
    \E t, u \in Threads :
       /\ t # u
       /\ cur[t] = "does__it::work" /\ cur[u] = "does__it::work"
       /\ pc[t] = "ret" /\ is_enabled[t] = 0 /\ Len(trace[t]) = 2
       /\ sema[SemaphoreOfCall(cur[t])] # 0
       /\ pc[u] = "ret" /\ is_enabled[u] # 0 /\ trace[u] = FullTrace

(***************************************************************************)
(* Properties of compile_provider_source (SpecSource).                     *)
(***************************************************************************)
CompiledSource == c_output.done /\ c_output.via = "source" /\ c_output.result.ok

\* C12: for every provider of a compiled D source, the per-provider
\* configuration names that provider, its probes are in a module named after
\* the provider when the caller's configuration gives no module name and in
\* the configured module when it gives one, the probes of the module are in
\* declaration order, and with no override the modules of different providers
\* have different names.
C12_ModulePerProvider ==
    CompiledSource =>
        LET out == c_output.result.providers
        IN  /\ Len(out) = Len(c_source.providers)
            /\ \A i \in 1..Len(out) :
                  LET p == c_source.providers[i]
                      m == out[i].tokens
                  IN  /\ out[i].config.provider.some
                      /\ out[i].config.provider.v = p.name
                      /\ ~c_config.module.some => m.module = p.name
                      /\ c_config.module.some => m.module = c_config.module.v
                      /\ Len(m.probe_impls) = Len(p.probes)
                      /\ \A k \in 1..Len(p.probes) :
                            /\ m.probe_impls[k].provider = p.name
                            /\ m.probe_impls[k].name = p.probes[k].name
                            /\ m.probe_impls[k].types = p.probes[k].types
            /\ ~c_config.module.some =>
                  \A i, j \in 1..Len(out) : i # j => out[i].tokens.module # out[j].tokens.module

\* A source of two providers compiled with a module override: both land in
\* the configured module, the second with its two probes in declared order.
C12_Witness ==
    /\ CompiledSource
    /\ c_config.module = Some(S_mymod)
    /\ Len(c_source.providers) = 2
    /\ c_source.providers[1].name = S_does__it
    /\ c_source.providers[2].name = S_test
    /\ Len(c_source.providers[2].probes) = 2
    /\ c_output.result.providers[2].tokens.probe_impls[1].name = S_stop__now
    /\ c_output.result.providers[1].tokens.module = S_mymod

(***************************************************************************)
(* The semaphore as a count of consumers (SpecSema).                       *)
(***************************************************************************)
\* C13 as stated: a thread about to read its semaphore reads a nonzero value
\* exactly when at least one consumer is attached to the probe, whatever the
\* number of consumers, 2^16 and more included.
C13_EnabledIffAttached ==
    /\ \A s \in Semaphores : attached[s] = 0 => sema[s] = 0
    /\ \A t \in Threads :
          pc[t] = "sema_read" =>
              (sema[SemaphoreOfCall(cur[t])] # 0 <=> attached[SemaphoreOfCall(cur[t])] > 0)

\* C13, amended: the semaphore is 0 while no consumer is attached and holds the
\* number of attached consumers modulo 2^16; an invocation reads a nonzero
\* value, and then goes on to its thunk, exactly when that number is not a
\* multiple of 2^16: with 1 to 2^16 - 1 consumers the probe is enabled, with
\* exactly 2^16 it is treated as disabled.
C13_EnabledIffAttachedModulo ==
    /\ [](\A s \in Semaphores :
             /\ attached[s] = 0 => sema[s] = 0
             /\ sema[s] = attached[s] % SemaModulus
             /\ attached[s] \in 1..(SemaModulus - 1) => sema[s] # 0
             /\ attached[s] = SemaModulus => sema[s] = 0)
    /\ [](\A t \in Threads :
             pc[t] = "sema_read" =>
                 (sema[SemaphoreOfCall(cur[t])] # 0
                     <=> attached[SemaphoreOfCall(cur[t])] % SemaModulus # 0))
    /\ [][\A t \in Threads :
             /\ (pc[t] = "sema_read" /\ pc'[t] = "check") =>
                    (is_enabled'[t] # 0
                        <=> attached[SemaphoreOfCall(cur[t])] % SemaModulus # 0)
             /\ (pc[t] = "check" /\ pc'[t] # "check") =>
                    (pc'[t] = "thunk" <=> is_enabled[t] # 0)]_vars

\* 2^16 consumers are attached, the counter has wrapped to 0, and an
\* invocation that read it has skipped the thunk and the firing trap.
C13_Witness ==
    \E t \in Threads :
       /\ pc[t] = "ret" /\ is_enabled[t] = 0 /\ Len(trace[t]) = 2
       /\ attached[SemaphoreOfCall(cur[t])] = SemaModulus
       /\ sema[SemaphoreOfCall(cur[t])] = 0

(***************************************************************************)
(* Naming (SpecAsm).                                                       *)
(***************************************************************************)
\* C14: naming is injective: two expanded probes that differ in provider or in
\* probe name declare different semaphore symbols and so never share one
\* semaphore, and two probes of one provider with different names carry
\* different probe-name strings in their records.
C14_NamingInjective ==
    \A i, j \in 1..Len(sites) :
       /\ <<sites[i].provider, sites[i].probe.name>>
              # <<sites[j].provider, sites[j].probe.name>> =>
             /\ sites[i].impl_block.sema_name # sites[j].impl_block.sema_name
             /\ sites[i].impl_block.isenabled_probe_rec.note.sema
                    # sites[j].impl_block.isenabled_probe_rec.note.sema
       /\ (sites[i].provider = sites[j].provider
              /\ sites[i].probe.name # sites[j].probe.name) =>
             sites[i].impl_block.probe_rec.note.probe
                # sites[j].impl_block.probe_rec.note.probe

====
